---- MODULE Spec2Model ----
(***************************************************************************)
(* Model of the settings-profile-element formatter                         *)
(* (src/Parsers/Access/ASTSettingsProfileElement.cpp).                     *)
(*                                                                         *)
(* The output sink settings.ostr is a string; every operator below builds  *)
(* the bytes the corresponding C++ function appends to it.  The state is   *)
(* one ASTSettingsProfileElements node, the format settings of the last    *)
(* formatting call, the sink that call filled and the log of the pieces    *)
(* the list formatter wrote.                                               *)
(***************************************************************************)
EXTENDS Integers, Sequences, FiniteSets, TLC

VARIABLES elements, hilite, ostr, calls, last

vars == <<elements, hilite, ostr, calls, last>>

(***************************************************************************)
(* Bounds of the model.                                                    *)
(***************************************************************************)
\* longest list of elements the list-level specification builds
MaxLen == 2

(***************************************************************************)
(* Byte-level helpers on strings.                                          *)
(***************************************************************************)
StartsWith(s, p) == Len(s) >= Len(p) /\ SubSeq(s, 1, Len(p)) = p

EndsWith(s, p) == Len(s) >= Len(p) /\ SubSeq(s, Len(s) - Len(p) + 1, Len(s)) = p

\* positions at which p occurs in s
Positions(s, p) == {i \in 1..(Len(s) - Len(p) + 1) : SubSeq(s, i, i + Len(p) - 1) = p}

Occurrences(s, p) == Cardinality(Positions(s, p))

Drop(s, n) == SubSeq(s, n + 1, Len(s))

(***************************************************************************)
(* The data: the fields of ASTSettingsProfileElement.                      *)
(***************************************************************************)
\* std::optional<Field>: a Field is a number or a string, here a string that
\* reads like a clause of the grammar
Fields == {[type |-> "UInt64", text |-> "0"], [type |-> "String", text |-> " CONST"]}

nullopt == [type |-> "nullopt", text |-> ""]

OptionalFields == Fields \cup {nullopt}

\* SettingConstraintWritability, MAX being the end-of-enum sentinel
Writabilities == {"WRITABLE", "CONST", "CHANGEABLE_IN_READONLY", "MAX"}

no_writability == "nullopt"

OptionalWritabilities == Writabilities \cup {no_writability}

\* the back-quote character (a lone back-quote cannot be written in a string
\* literal, so it is taken out of a two-character one)
BackTick == SubSeq("`'", 1, 1)

SingleQuote == "'"

BackSlash == "\\"

\* the empty name, a plain name and one holding both quote characters
ParentProfiles == {"", "p", "q`'"}

\* the empty name, a plain name and a name that reads like a keyword
SettingNames == {"", "ro", "CONST"}

Elements ==
    [parent_profile : ParentProfiles,
     id_mode : BOOLEAN,
     use_inherit_keyword : BOOLEAN,
     setting_name : SettingNames,
     value : OptionalFields,
     min_value : OptionalFields,
     max_value : OptionalFields,
     writability : OptionalWritabilities]

\* the lists of at most n elements drawn from S
RECURSIVE ListsUpTo(_, _)
ListsUpTo(S, n) ==
    IF n = 0 THEN {<<>>}
    ELSE LET shorter == ListsUpTo(S, n - 1)
         IN  shorter \cup {Append(l, e) : l \in {x \in shorter : Len(x) = n - 1}, e \in S}

(***************************************************************************)
(* External collaborators: quoting, literal and name formatting, and the   *)
(* highlight markers.                                                      *)
(***************************************************************************)
\* IAST::hilite_keyword and IAST::hilite_none, the terminal escape sequences
hilite_keyword == "\\033[1m"

hilite_none == "\\033[0m"

\* a string written between quote characters q, with q and the backslash
\* escaped by a backslash
RECURSIVE Escaped(_, _)
Escaped(s, q) ==
    IF s = "" THEN ""
    ELSE LET c == SubSeq(s, 1, 1)
         IN  (IF c = q \/ c = BackSlash THEN BackSlash \o c ELSE c) \o Escaped(Drop(s, 1), q)

quoteString(s) == SingleQuote \o Escaped(s, SingleQuote) \o SingleQuote

backQuote(s) == BackTick \o Escaped(s, BackTick) \o BackTick

\* applyVisitor(FieldVisitorToString{}, field): a number as its digits, a string
\* as a quoted literal
FieldToString(f) == IF f.type = "String" THEN quoteString(f.text) ELSE f.text

IdentifierStart == {"a", "b", "c", "d", "e", "f", "g", "h", "i", "j", "k", "l", "m",
                    "n", "o", "p", "q", "r", "s", "t", "u", "v", "w", "x", "y", "z", "_",
                    "C", "O", "N", "S", "T"}

IdentifierChars == IdentifierStart \cup {"0", "1", "2", "3", "4", "5", "6", "7", "8", "9"}

isValidIdentifier(s) ==
    /\ s # ""
    /\ SubSeq(s, 1, 1) \in IdentifierStart
    /\ \A i \in 1..Len(s) : SubSeq(s, i, i) \in IdentifierChars

\* formatSettingName(name, out): an identifier as it is, anything else back-quoted
formatSettingName(name) == IF isValidIdentifier(name) THEN name ELSE backQuote(name)

\* ASTSettingsProfileElement::empty(), declared in the header
ElementEmpty(e) == e.parent_profile = "" /\ e.setting_name = ""

(***************************************************************************)
(* The formatters.  Each returns the pieces it appends to settings.ostr,   *)
(* in order; a piece is tagged with the clause it belongs to.              *)
(***************************************************************************)
Piece(kind, text) == [kind |-> kind, index |-> 0, text |-> text]

\* the bytes a sequence of pieces leaves in the sink
RECURSIVE Text(_)
Text(pieces) == IF pieces = <<>> THEN "" ELSE Head(pieces).text \o Text(Tail(pieces))

\* a variant whose closing marker is written whatever settings.hilite is
HilitedClosingAlways(h, pieces) ==
    (IF h THEN <<Piece("hilite", hilite_keyword)>> ELSE <<>>)
        \o pieces \o <<Piece("hilite", hilite_none)>>

\* (settings.hilite ? IAST::hilite_keyword : "") << ... << (settings.hilite ? IAST::hilite_none : "")
Hilited(h, pieces) ==
    IF h THEN <<Piece("hilite", hilite_keyword)>> \o pieces \o <<Piece("hilite", hilite_none)>>
    ELSE pieces

formatProfileNameOrID(str, is_id, h) ==
    IF is_id
    THEN Hilited(h, <<Piece("keyword", "ID")>>)
             \o <<Piece("target", "(" \o quoteString(str) \o ")")>>
    ELSE <<Piece("target", backQuote(str))>>

\* a variant whose CONST case breaks without writing
WritabilityClauseConstSilent(w, h) ==
    CASE w = "WRITABLE" -> Hilited(h, <<Piece("writability", " WRITABLE")>>)
      [] w = "CONST" -> <<>>
      [] w = "CHANGEABLE_IN_READONLY" ->
             Hilited(h, <<Piece("writability", " CHANGEABLE_IN_READONLY")>>)
      [] w = "MAX" -> <<>>

\* a variant whose sentinel case writes the enumerator's name
WritabilityClauseSentinelWritten(w, h) ==
    CASE w = "WRITABLE" -> Hilited(h, <<Piece("writability", " WRITABLE")>>)
      [] w = "CONST" -> Hilited(h, <<Piece("writability", " CONST")>>)
      [] w = "CHANGEABLE_IN_READONLY" ->
             Hilited(h, <<Piece("writability", " CHANGEABLE_IN_READONLY")>>)
      [] w = "MAX" -> Hilited(h, <<Piece("writability", " MAX")>>)

\* the writability clause: the switch over *writability
WritabilityClause(w, h) ==
    CASE w = "WRITABLE" -> Hilited(h, <<Piece("writability", " WRITABLE")>>)
      [] w = "CONST" -> Hilited(h, <<Piece("writability", " CONST")>>)
      [] w = "CHANGEABLE_IN_READONLY" ->
             Hilited(h, <<Piece("writability", " CHANGEABLE_IN_READONLY")>>)
      [] w = "MAX" -> <<>>

\* the branch of formatImpl taken when parent_profile is not empty
ProfileReference(e, h) ==
    Hilited(h, <<Piece("keyword", IF e.use_inherit_keyword THEN "INHERIT" ELSE "PROFILE"),
                 Piece("space", " ")>>)
        \o formatProfileNameOrID(e.parent_profile, e.id_mode, h)

\* a variant that writes the MAX clause before the MIN clause
SettingConstraintMaxFirst(e, h) ==
         <<Piece("setting_name", formatSettingName(e.setting_name))>>
             \o (IF e.value # nullopt
                 THEN <<Piece("value", " = " \o FieldToString(e.value))>>
                 ELSE <<>>)
             \o (IF e.max_value # nullopt
                 THEN Hilited(h, <<Piece("max", " MAX ")>>)
                          \o <<Piece("max_value", FieldToString(e.max_value))>>
                 ELSE <<>>)
             \o (IF e.min_value # nullopt
                 THEN Hilited(h, <<Piece("min", " MIN ")>>)
                          \o <<Piece("min_value", FieldToString(e.min_value))>>
                 ELSE <<>>)
             \o (IF e.writability # no_writability
                 THEN WritabilityClause(e.writability, h)
                 ELSE <<>>)

\* the rest of formatImpl: the setting name and its optional clauses
SettingConstraint(e, h) ==
         <<Piece("setting_name", formatSettingName(e.setting_name))>>
             \o (IF e.value # nullopt
                 THEN <<Piece("value", " = " \o FieldToString(e.value))>>
                 ELSE <<>>)
             \o (IF e.min_value # nullopt
                 THEN Hilited(h, <<Piece("min", " MIN ")>>)
                          \o <<Piece("min_value", FieldToString(e.min_value))>>
                 ELSE <<>>)
             \o (IF e.max_value # nullopt
                 THEN Hilited(h, <<Piece("max", " MAX ")>>)
                          \o <<Piece("max_value", FieldToString(e.max_value))>>
                 ELSE <<>>)
             \o (IF e.writability # no_writability
                 THEN WritabilityClause(e.writability, h)
                 ELSE <<>>)

\* a variant without the return that ends the parent-profile branch
ElementFormatImplFallingThrough(e, h) ==
    IF e.parent_profile # ""
    THEN ProfileReference(e, h) \o SettingConstraint(e, h)
    ELSE SettingConstraint(e, h)

\* ASTSettingsProfileElement::formatImpl
ElementFormatImpl(e, h) ==
    IF e.parent_profile # "" THEN ProfileReference(e, h) ELSE SettingConstraint(e, h)

\* ASTSettingsProfileElements::empty()
RECURSIVE ListEmptyFrom(_, _)
ListEmptyFrom(es, i) ==
    IF i > Len(es) THEN TRUE
    ELSE IF ~ElementEmpty(es[i]) THEN FALSE
    ELSE ListEmptyFrom(es, i + 1)

\* a variant that takes only a list without elements for empty
ListEmptyOnlyWithoutElements(es) == es = <<>>

ListEmpty(es) == ListEmptyFrom(es, 1)

\* what element->format(settings) adds to the list's log: the element's bytes,
\* tagged with the element's position
ElementCall(es, i, h) ==
    [kind |-> "element", index |-> i, text |-> Text(ElementFormatImpl(es[i], h))]

\* a variant of the loop that leaves out the elements that are empty
RECURSIVE FormatLoopSkippingEmpty(_, _, _, _)
FormatLoopSkippingEmpty(es, i, need_comma, h) ==
    IF i > Len(es) THEN <<>>
    ELSE IF ElementEmpty(es[i]) THEN FormatLoopSkippingEmpty(es, i + 1, need_comma, h)
    ELSE (IF need_comma THEN <<Piece("separator", ", ")>> ELSE <<>>)
             \o <<ElementCall(es, i, h)>>
             \o FormatLoopSkippingEmpty(es, i + 1, TRUE, h)

\* the loop of ASTSettingsProfileElements::formatImpl, from element i on
RECURSIVE FormatLoop(_, _, _, _)
FormatLoop(es, i, need_comma, h) ==
    IF i > Len(es) THEN <<>>
    ELSE (IF need_comma THEN <<Piece("separator", ", ")>> ELSE <<>>)
             \o <<ElementCall(es, i, h)>>
             \o FormatLoop(es, i + 1, TRUE, h)

\* a variant that writes the separator after every element instead of before
\* every element but the first
RECURSIVE FormatLoopCommaAfter(_, _, _)
FormatLoopCommaAfter(es, i, h) ==
    IF i > Len(es) THEN <<>>
    ELSE <<ElementCall(es, i, h), Piece("separator", ", ")>> \o FormatLoopCommaAfter(es, i + 1, h)

ListFormatImplCommaAfter(es, h) ==
    IF ListEmpty(es)
    THEN Hilited(h, <<Piece("keyword", "NONE")>>)
    ELSE FormatLoopCommaAfter(es, 1, h)

\* ASTSettingsProfileElements::formatImpl
ListFormatImpl(es, h) ==
    IF ListEmpty(es)
    THEN Hilited(h, <<Piece("keyword", "NONE")>>)
    ELSE FormatLoop(es, 1, FALSE, h)

\* a variant that sets the flag on the profile references only
WithUseInheritKeywordOnReferences(es, use_inherit_keyword_) ==
    [i \in DOMAIN es |->
        IF es[i].parent_profile # ""
        THEN [es[i] EXCEPT !.use_inherit_keyword = use_inherit_keyword_]
        ELSE es[i]]

\* ASTSettingsProfileElements::setUseInheritKeyword
WithUseInheritKeyword(es, use_inherit_keyword_) ==
    [i \in DOMAIN es |-> [es[i] EXCEPT !.use_inherit_keyword = use_inherit_keyword_]]

(***************************************************************************)
(* The state machine.                                                      *)
(*   elements  the list held by the ASTSettingsProfileElements node        *)
(*   hilite    settings.hilite of the last formatting call                 *)
(*   ostr      the bytes the last operation appended to the sink it was    *)
(*             handed (a caller passes an empty sink; setUseInheritKeyword *)
(*             has no sink and writes nothing)                             *)
(*   calls     the pieces behind ostr, in the order they were written      *)
(*   last      the last operation and its arguments                        *)
(***************************************************************************)
Op(op, index, flag) == [op |-> op, index |-> index, flag |-> flag]

\* the elements the longer lists are drawn from: both forms, empty and
\* non-empty, with and without a trailing clause, either flag, and id_mode
\* where it is read
ListElements ==
    {e \in Elements :
        /\ e.parent_profile \in {"", "p"}
        /\ e.id_mode => e.parent_profile # ""
        /\ e.setting_name \in {"", "ro"}
        /\ e.value = nullopt /\ e.min_value = nullopt /\ e.max_value = nullopt
        /\ e.writability \in {no_writability, "CONST"}}

Constructed(lists) ==
    /\ elements \in lists
    /\ hilite = FALSE
    /\ ostr = ""
    /\ calls = <<>>
    /\ last = Op("init", 0, FALSE)

\* a list of any length up to MaxLen, as the parser leaves it, or a list of a
\* single element with any combination of its fields
Init == Constructed(ListsUpTo(ListElements, MaxLen) \cup {<<e>> : e \in Elements})

setUseInheritKeyword ==
    \E b \in BOOLEAN :
        /\ elements' = WithUseInheritKeyword(elements, b)
        /\ ostr' = ""
        /\ calls' = <<>>
        /\ last' = Op("setUseInheritKeyword", 0, b)
        /\ UNCHANGED hilite

\* a variant of the list's formatting that also clears the elements' flag
FormatListClearingFlag ==
    \E h \in BOOLEAN :
        /\ hilite' = h
        /\ calls' = ListFormatImpl(elements, h)
        /\ ostr' = Text(calls')
        /\ last' = Op("formatList", 0, h)
        /\ elements' = WithUseInheritKeyword(elements, FALSE)

\* elements.format(settings) on the list
FormatList ==
    \E h \in BOOLEAN :
        /\ hilite' = h
        /\ calls' = ListFormatImpl(elements, h)
        /\ ostr' = Text(calls')
        /\ last' = Op("formatList", 0, h)
        /\ UNCHANGED elements

\* element->format(settings) on one element of the list
FormatElement ==
    \E i \in DOMAIN elements, h \in BOOLEAN :
        /\ hilite' = h
        /\ calls' = ElementFormatImpl(elements[i], h)
        /\ ostr' = Text(calls')
        /\ last' = Op("formatElement", i, h)
        /\ UNCHANGED elements

Next == setUseInheritKeyword \/ FormatList \/ FormatElement

Spec == Init /\ [][Next]_vars

TypeOK ==
    /\ elements \in Seq(Elements)
    /\ hilite \in BOOLEAN
    /\ last.op \in {"init", "setUseInheritKeyword", "formatList", "formatElement"}

(***************************************************************************)
(* Properties.                                                             *)
(***************************************************************************)
AfterFormatList == last.op = "formatList"

AfterFormatElement == last.op = "formatElement"

\* the element the last element-level call formatted
Formatted == elements[last.index]

AllElementsEmpty == \A i \in DOMAIN elements : ElementEmpty(elements[i])

ElementCalls == SelectSeq(calls, LAMBDA c : c.kind = "element")

Separators == SelectSeq(calls, LAMBDA c : c.kind = "separator")

\* C1: when every element of the list is empty by its own predicate (a list
\* without elements included), formatting the list writes the keyword NONE and
\* nothing else (between the two markers when highlighting is on), and no
\* element is formatted.
C1_AllEmptyFormatsNone ==
    (AfterFormatList /\ AllElementsEmpty) =>
        /\ ostr = (IF hilite THEN hilite_keyword \o "NONE" \o hilite_none ELSE "NONE")
        /\ ElementCalls = <<>>
        /\ Separators = <<>>

C1_Witness ==
    /\ AfterFormatList /\ AllElementsEmpty
    /\ Len(elements) = 2 /\ ~hilite /\ ostr = "NONE"

\* the bytes of the elements from i on, joined by ", "
RECURSIVE Joined(_, _, _)
Joined(es, i, h) ==
    IF i > Len(es) THEN ""
    ELSE Text(ElementFormatImpl(es[i], h))
             \o (IF i < Len(es) THEN ", " ELSE "")
             \o Joined(es, i + 1, h)

\* C2: when at least one element of the list is not empty, formatting the list
\* formats every element, the empty ones included, in the order of the list:
\* the k-th element written is element k, and the output is the elements'
\* outputs joined by ", ".
C2_EveryElementInOrder ==
    (AfterFormatList /\ ~AllElementsEmpty) =>
        /\ Len(ElementCalls) = Len(elements)
        /\ \A k \in DOMAIN elements :
               /\ ElementCalls[k].index = k
               /\ ElementCalls[k].text = Text(ElementFormatImpl(elements[k], hilite))
        /\ ostr = Joined(elements, 1, hilite)

C2_Witness ==
    /\ AfterFormatList /\ Len(elements) = 2
    /\ ~ElementEmpty(elements[1]) /\ ElementEmpty(elements[2])
    /\ Len(ElementCalls) = 2

\* C3: for a list that is not empty (some element is not empty) and has n
\* elements, the separator ", " is written n-1 times, each time right between
\* two element outputs, and the output neither starts nor ends with ", ".
C3_SeparatorsBetweenElements ==
    (AfterFormatList /\ ~AllElementsEmpty) =>
        /\ Len(Separators) = Len(elements) - 1
        /\ \A k \in DOMAIN calls :
               calls[k].kind = "separator" =>
                   /\ calls[k].text = ", "
                   /\ 1 < k /\ k < Len(calls)
                   /\ calls[k - 1].kind = "element"
                   /\ calls[k + 1].kind = "element"
        /\ ~StartsWith(ostr, ", ")
        /\ ~EndsWith(ostr, ", ")

C3_Witness ==
    /\ AfterFormatList /\ Len(elements) = 2
    /\ ElementEmpty(elements[1]) /\ ~ElementEmpty(elements[2])
    /\ Len(Separators) = 1

\* the pieces of the last call that are not highlight markers
Clauses == SelectSeq(calls, LAMBDA c : c.kind # "hilite")

Kinds(pieces) == [k \in DOMAIN pieces |-> pieces[k].kind]

\* a keyword as the formatter wraps it
Marked(h, text) == IF h THEN hilite_keyword \o text \o hilite_none ELSE text

\* C4: an element with a non-empty parent_profile formats to INHERIT or PROFILE
\* (by use_inherit_keyword), one space, then ID(<quoted string>) when id_mode,
\* else the back-quoted name; no other field of the element shows in the
\* output.
C4_ReferenceForm ==
    (AfterFormatElement /\ Formatted.parent_profile # "") =>
        ostr = Marked(hilite, (IF Formatted.use_inherit_keyword THEN "INHERIT" ELSE "PROFILE")
                                  \o " ")
                   \o (IF Formatted.id_mode
                       THEN Marked(hilite, "ID") \o "("
                                \o quoteString(Formatted.parent_profile) \o ")"
                       ELSE backQuote(Formatted.parent_profile))

C4_Witness ==
    /\ AfterFormatElement /\ ~hilite
    /\ Formatted.parent_profile = "p" /\ Formatted.id_mode
    /\ ~Formatted.use_inherit_keyword
    /\ Formatted.setting_name = "ro" /\ Formatted.value # nullopt
    /\ Formatted.writability = "CONST"
    /\ ostr = "PROFILE ID('p')"

IsKeywordWritability(w) == w \in {"WRITABLE", "CONST", "CHANGEABLE_IN_READONLY"}

\* C5: an element with an empty parent_profile formats to the setting name,
\* then " = " value, " MIN " min_value, " MAX " max_value and " " writability
\* keyword in that order, each clause written if and only if its field is
\* present (the writability clause: present and not the sentinel).
C5_ClauseOrder ==
    (AfterFormatElement /\ Formatted.parent_profile = "") =>
        /\ Kinds(Clauses) =
               <<"setting_name">>
                   \o (IF Formatted.value # nullopt THEN <<"value">> ELSE <<>>)
                   \o (IF Formatted.min_value # nullopt THEN <<"min", "min_value">> ELSE <<>>)
                   \o (IF Formatted.max_value # nullopt THEN <<"max", "max_value">> ELSE <<>>)
                   \o (IF IsKeywordWritability(Formatted.writability)
                       THEN <<"writability">> ELSE <<>>)
        /\ ostr =
               formatSettingName(Formatted.setting_name)
                   \o (IF Formatted.value # nullopt
                       THEN " = " \o FieldToString(Formatted.value) ELSE "")
                   \o (IF Formatted.min_value # nullopt
                       THEN Marked(hilite, " MIN ") \o FieldToString(Formatted.min_value)
                       ELSE "")
                   \o (IF Formatted.max_value # nullopt
                       THEN Marked(hilite, " MAX ") \o FieldToString(Formatted.max_value)
                       ELSE "")
                   \o (IF IsKeywordWritability(Formatted.writability)
                       THEN Marked(hilite, " " \o Formatted.writability) ELSE "")

C5_Witness ==
    /\ AfterFormatElement /\ ~hilite
    /\ Formatted.parent_profile = "" /\ Formatted.setting_name = "ro"
    /\ Formatted.value = nullopt
    /\ Formatted.min_value # nullopt /\ Formatted.max_value # nullopt
    /\ Formatted.writability = "CONST"
    /\ ostr = "ro MIN 0 MAX 0 CONST"

WritabilityPieces == SelectSeq(calls, LAMBDA c : c.kind = "writability")

\* C6 as stated: every element with a writability other than the sentinel
\* formats to an output that holds the keyword, preceded by a space, exactly
\* once.
C6_KeywordOnceInEveryElement ==
    (AfterFormatElement /\ IsKeywordWritability(Formatted.writability)) =>
        Occurrences(ostr, " " \o Formatted.writability) = 1

\* C6, amended: for an element with an empty parent_profile and a writability
\* other than the sentinel, the formatter writes the writability clause exactly
\* once, as one space and the keyword, and it is the last clause of the output.
C6_KeywordOnceInConstraintForm ==
    (/\ AfterFormatElement
     /\ Formatted.parent_profile = ""
     /\ IsKeywordWritability(Formatted.writability)) =>
        /\ Len(WritabilityPieces) = 1
        /\ WritabilityPieces[1].text = " " \o Formatted.writability
        /\ Clauses[Len(Clauses)].kind = "writability"
        /\ EndsWith(ostr, Marked(hilite, " " \o Formatted.writability))

C6_Witness ==
    /\ AfterFormatElement /\ ~hilite
    /\ Formatted.parent_profile = "" /\ Formatted.setting_name = "CONST"
    /\ Formatted.writability = "CONST"
    /\ Formatted.value = nullopt /\ Formatted.min_value = nullopt
    /\ Formatted.max_value = nullopt
    /\ ostr = "CONST CONST"

\* C7: setUseInheritKeyword(b) leaves every element with use_inherit_keyword = b
\* whatever it was, changes no other field of any element, and keeps the
\* list's length and order.
C7_SetUseInheritKeywordFrame ==
    [][last'.op = "setUseInheritKeyword" =>
          /\ Len(elements') = Len(elements)
          /\ \A i \in DOMAIN elements :
                 /\ elements'[i].use_inherit_keyword = last'.flag
                 /\ elements'[i].parent_profile = elements[i].parent_profile
                 /\ elements'[i].id_mode = elements[i].id_mode
                 /\ elements'[i].setting_name = elements[i].setting_name
                 /\ elements'[i].value = elements[i].value
                 /\ elements'[i].min_value = elements[i].min_value
                 /\ elements'[i].max_value = elements[i].max_value
                 /\ elements'[i].writability = elements[i].writability]_vars

C7_Witness ==
    /\ last.op = "setUseInheritKeyword" /\ last.flag
    /\ Len(elements) = 2
    /\ elements[1].parent_profile = "" /\ elements[2].parent_profile = "p"
    /\ elements[1].use_inherit_keyword /\ elements[2].use_inherit_keyword

IsFormat(op) == op \in {"formatList", "formatElement"}

C9_SentinelWritesNothing ==
    (/\ AfterFormatElement
     /\ Formatted.parent_profile = ""
     /\ Formatted.writability = "MAX") =>
        /\ WritabilityPieces = <<>>
        /\ ostr = Text(ElementFormatImpl([Formatted EXCEPT !.writability = no_writability],
                                          hilite))
        /\ ~EndsWith(ostr, " ")

C9_Witness ==
    /\ AfterFormatElement /\ ~hilite
    /\ Formatted.parent_profile = "" /\ Formatted.setting_name = "ro"
    /\ Formatted.writability = "MAX"
    /\ Formatted.value # nullopt /\ Formatted.min_value = nullopt
    /\ Formatted.max_value = nullopt
    /\ ostr = "ro = 0"

IsMarker(s) == s = hilite_keyword \/ s = hilite_none

\* s with every highlight marker deleted
RECURSIVE StripHilite(_)
StripHilite(s) ==
    IF s = "" THEN ""
    ELSE IF StartsWith(s, hilite_keyword) THEN StripHilite(Drop(s, Len(hilite_keyword)))
    ELSE IF StartsWith(s, hilite_none) THEN StripHilite(Drop(s, Len(hilite_none)))
    ELSE SubSeq(s, 1, 1) \o StripHilite(Drop(s, 1))

\* every hilite_keyword marker of s is followed by a hilite_none marker that
\* comes before the next hilite_keyword marker
MarkersMatched(s) ==
    LET opened == Positions(s, hilite_keyword)
        closed == Positions(s, hilite_none)
    IN  \A o \in opened :
            \E c \in closed :
                /\ c > o
                /\ \A o2 \in opened : o2 > o => o2 > c

\* the bytes the last formatting call writes when highlighting is off
PlainOutput ==
    IF AfterFormatList THEN Text(ListFormatImpl(elements, FALSE))
    ELSE Text(ElementFormatImpl(Formatted, FALSE))

\* C10: the output written with highlighting on, its markers deleted, is the
\* output written with highlighting off; with highlighting off no marker is
\* written; with it on every hilite_keyword marker is closed by a hilite_none
\* marker before the next one opens.
C10_HiliteCosmetic ==
    IsFormat(last.op) =>
        /\ hilite =>
               /\ StripHilite(ostr) = PlainOutput
               /\ MarkersMatched(ostr)
        /\ ~hilite =>
               /\ Occurrences(ostr, hilite_keyword) = 0
               /\ Occurrences(ostr, hilite_none) = 0
               /\ \A k \in DOMAIN calls : calls[k].kind # "hilite"

C10_Witness ==
    /\ AfterFormatList /\ hilite /\ Len(elements) = 2
    /\ Occurrences(ostr, hilite_keyword) = 2
    /\ Occurrences(ostr, hilite_none) = 2
    /\ StripHilite(ostr) # ostr

====
